---- MODULE Spec2Model ----
(***************************************************************************)
(* A model of AVL_Database.cpp: the AVLTree (insert, deleteNode, search,   *)
(* rotations, reBalance) and the IndexedDatabase facade laid over it.      *)
(*                                                                         *)
(* A node is the record [record, left, right, height]; the null pointer is *)
(* NULL.  A pointer to a node of the tree is the path that leads to it     *)
(* from the root, a sequence over {"L", "R"}; NoNode is the null pointer   *)
(* where a path is expected.  Keys are strings in the code and are         *)
(* modelled by the naturals 1..NumKeys under <, with EmptyKey for "".      *)
(***************************************************************************)
EXTENDS Integers, Sequences, FiniteSets, TLC

\* ---------------------------------------------------------------- bounds
\* Spec: few keys, each stored under either of several values.
NumKeys == 3
NumValues == 2
MaxNodeCount == 3
MaxComparisons == 2

\* SpecDeep: enough keys for trees of height 4, all stored under one value.
NumDeepKeys == 6
MaxDeepNodeCount == 6
MaxDeepComparisons == 1
NumRotateKeys == 4
NumAscendingKeys == 7

Keys == 1..NumKeys
Values == 1..NumValues
DeepKeys == 1..NumDeepKeys
DeepValues == {1}

\* The key "" and the value 0 of the record search builds when nothing is found.
EmptyKey == 0
ZeroValue == 0

VARIABLES
    root,                   \* AVLTree::root
    nodeCount,              \* AVLTree::nodeCount
    searchComparisonCount,  \* AVLTree::searchComparisonCount
    returned,               \* what the last call returned to its caller
    fault,                  \* a null parent pointer has been dereferenced
    last,                   \* history: the last call and the case it met
    log                     \* history: the inserts made while nothing else has mutated the tree

vars == <<root, nodeCount, searchComparisonCount, returned, fault, last, log>>

\* ------------------------------------------------------------ data model
NULL == [null |-> TRUE]
NoNode == <<"null">>

Record(k, v) == [key |-> k, value |-> v]

AVLNode(r) == [record |-> r, left |-> NULL, right |-> NULL, height |-> 1]

Max(a, b) == IF a >= b THEN a ELSE b

height(node) == IF node = NULL THEN 0 ELSE node.height

updateHeight(node) ==
    IF node = NULL THEN node
    ELSE [node EXCEPT !.height = 1 + Max(height(node.left), height(node.right))]

getBalance(node) ==
    IF node = NULL THEN 0 ELSE height(node.left) - height(node.right)

\* rotateRight updating l's height before y's, so that l's is taken from
\* the height y had before the rotation.
rotateRightHeightsSwapped(y) ==
    IF y = NULL \/ y.left = NULL THEN y
    ELSE LET l  == y.left
             y2 == [y EXCEPT !.left = l.right]
             l2 == updateHeight([l EXCEPT !.right = y2])
         IN  [l2 EXCEPT !.right = updateHeight(y2)]

rotateRight(y) ==
    IF y = NULL \/ y.left = NULL THEN y
    ELSE LET l  == y.left
             y2 == updateHeight([y EXCEPT !.left = l.right])
         IN  updateHeight([l EXCEPT !.right = y2])

\* rotateLeft leaving x without a right child instead of handing it r's left one.
rotateLeftDropping(x) ==
    IF x = NULL \/ x.right = NULL THEN x
    ELSE LET r  == x.right
             x2 == updateHeight([x EXCEPT !.right = NULL])
         IN  updateHeight([r EXCEPT !.left = x2])

rotateLeft(x) ==
    IF x = NULL \/ x.right = NULL THEN x
    ELSE LET r  == x.right
             x2 == updateHeight([x EXCEPT !.right = r.left])
         IN  updateHeight([r EXCEPT !.left = x2])

\* reBalance that rotates a left-heavy node only.
reBalanceLeftHeavyOnly(node0) ==
    IF node0 = NULL THEN node0
    ELSE LET node    == updateHeight(node0)
             balance == getBalance(node)
         IN  IF balance > 1 /\ getBalance(node.left) >= 0
                 THEN rotateRight(node)
             ELSE IF balance > 1 /\ getBalance(node.left) < 0
                 THEN rotateRight([node EXCEPT !.left = rotateLeft(node.left)])
             ELSE node

\* reBalance with one rotation in the left-right and right-left cases too.
reBalanceSingleRotations(node0) ==
    IF node0 = NULL THEN node0
    ELSE LET node    == updateHeight(node0)
             balance == getBalance(node)
         IN  IF balance > 1 THEN rotateRight(node)
             ELSE IF balance < -1 THEN rotateLeft(node)
             ELSE node

reBalance(node0) ==
    IF node0 = NULL THEN node0
    ELSE LET node    == updateHeight(node0)
             balance == getBalance(node)
         IN  IF balance > 1 /\ getBalance(node.left) >= 0
                 THEN rotateRight(node)
             ELSE IF balance < -1 /\ getBalance(node.right) <= 0
                 THEN rotateLeft(node)
             ELSE IF balance > 1 /\ getBalance(node.left) < 0
                 THEN rotateRight([node EXCEPT !.left = rotateLeft(node.left)])
             ELSE IF balance < -1 /\ getBalance(node.right) > 0
                 THEN rotateLeft([node EXCEPT !.right = rotateRight(node.right)])
             ELSE node

\* insertHelper putting the incoming record into the node that holds its key.
RECURSIVE insertHelperReplacing(_, _)
insertHelperReplacing(node, record) ==
    IF node = NULL THEN AVLNode(record)
    ELSE LET n2 == IF record.key < node.record.key
                       THEN [node EXCEPT !.left = insertHelperReplacing(node.left, record)]
                   ELSE IF record.key > node.record.key
                       THEN [node EXCEPT !.right = insertHelperReplacing(node.right, record)]
                   ELSE [node EXCEPT !.record = record]
         IN  reBalance(updateHeight(n2))

RECURSIVE insertHelper(_, _)
insertHelper(node, record) ==
    IF node = NULL THEN AVLNode(record)
    ELSE LET n2 == IF record.key < node.record.key
                       THEN [node EXCEPT !.left = insertHelper(node.left, record)]
                   ELSE IF record.key > node.record.key
                       THEN [node EXCEPT !.right = insertHelper(node.right, record)]
                   ELSE node
         IN  reBalance(updateHeight(n2))

\* ------------------------------------------------- pointers into the tree
RECURSIVE NodeAt(_, _)
NodeAt(node, path) ==
    IF path = <<>> \/ node = NULL THEN node
    ELSE NodeAt(IF Head(path) = "L" THEN node.left ELSE node.right, Tail(path))

RECURSIVE Store(_, _, _)
Store(node, path, sub) ==
    IF path = <<>> THEN sub
    ELSE IF Head(path) = "L"
        THEN [node EXCEPT !.left = Store(node.left, Tail(path), sub)]
        ELSE [node EXCEPT !.right = Store(node.right, Tail(path), sub)]

RECURSIVE searchFrom(_, _, _)
searchFrom(current, path, key) ==
    IF current = NULL THEN NoNode
    ELSE IF key < current.record.key
        THEN searchFrom(current.left, Append(path, "L"), key)
    ELSE IF key > current.record.key
        THEN searchFrom(current.right, Append(path, "R"), key)
    ELSE path

searchHelper(node, key, value) == searchFrom(node, <<>>, key)

RECURSIVE minValueFrom(_, _)
minValueFrom(node, path) ==
    IF node.left # NULL THEN minValueFrom(node.left, Append(path, "L"))
    ELSE path

\* minValueNode without its loop: the node itself.
minValueNodeNoDescent(t, path) == path

\* minValueNode(node) for the node at `path` of tree `t`.
minValueNode(t, path) == minValueFrom(NodeAt(t, path), path)

RECURSIVE deleteWalk(_, _, _, _, _)
deleteWalk(t, parent, current, child, childKey) ==
    IF NodeAt(t, current) = NULL \/ current = child THEN parent
    ELSE IF childKey < NodeAt(t, current).record.key
        THEN deleteWalk(t, current, Append(current, "L"), child, childKey)
        ELSE deleteWalk(t, current, Append(current, "R"), child, childKey)

\* deleteHelper descending left, not right, from a node whose key equals child's.
RECURSIVE deleteWalkLeftOnTie(_, _, _, _, _)
deleteWalkLeftOnTie(t, parent, current, child, childKey) ==
    IF NodeAt(t, current) = NULL \/ current = child THEN parent
    ELSE IF childKey <= NodeAt(t, current).record.key
        THEN deleteWalkLeftOnTie(t, current, Append(current, "L"), child, childKey)
        ELSE deleteWalkLeftOnTie(t, current, Append(current, "R"), child, childKey)

deleteHelperLeftOnTie(t, child) ==
    deleteWalkLeftOnTie(t, NoNode, <<>>, child, NodeAt(t, child).record.key)

\* deleteHelper moving `parent` one step late: the node passed before the last.
deleteHelperLagging(t, child) ==
    LET parent == deleteWalk(t, NoNode, <<>>, child, NodeAt(t, child).record.key)
    IN  IF parent = NoNode \/ parent = <<>> THEN NoNode
        ELSE SubSeq(parent, 1, Len(parent) - 1)

\* deleteHelper(root, child): the node the descent by child's key passes last.
deleteHelper(t, child) ==
    deleteWalk(t, NoNode, <<>>, child, NodeAt(t, child).record.key)

\* The link of `parent` that deleteNode overwrites: its left one when that is
\* the pointer to `node`, its right one otherwise.
LinkOf(parent, node) ==
    IF Append(parent, "L") = node THEN Append(parent, "L") ELSE Append(parent, "R")

\* What deleteNode leaves behind: the tree before the final rebalancing of the
\* root, whether a node was removed, and whether a null parent was dereferenced.
Outcome(t, removed, nullDeref) == [tree |-> t, removed |-> removed, fault |-> nullDeref]

\* Splice `replacement` into the parent's link to `node` (deleteHelper finds the parent).
Splice(t, node, replacement) ==
    LET parent == deleteHelper(t, node)
    IN  IF parent = NoNode THEN Outcome(t, TRUE, TRUE)
        ELSE Outcome(Store(t, LinkOf(parent, node), replacement), TRUE, FALSE)

\* deleteNode matching on the key alone.
TargetByKeyAlone(t, key, value) == searchHelper(t, key, value)

\* The node deleteNode is to remove: the one searchHelper finds, when it holds `value`.
Target(t, key, value) ==
    LET found == searchHelper(t, key, value)
    IN  IF found = NoNode \/ NodeAt(t, found).record.value # value THEN NoNode
        ELSE found

Unlink(t, key, value) ==
    IF t = NULL THEN Outcome(t, FALSE, FALSE)
    ELSE LET nodeToDelete == Target(t, key, value)
             target       == NodeAt(t, nodeToDelete)
         IN  IF nodeToDelete = NoNode
                 THEN Outcome(t, FALSE, FALSE)
             ELSE IF target.left = NULL /\ target.right = NULL
                 THEN IF nodeToDelete = <<>> THEN Outcome(NULL, TRUE, FALSE)
                      ELSE Splice(t, nodeToDelete, NULL)
             ELSE IF target.left = NULL \/ target.right = NULL
                 THEN LET child == IF target.left # NULL THEN target.left
                                   ELSE target.right
                      IN  IF nodeToDelete = <<>> THEN Outcome(child, TRUE, FALSE)
                          ELSE Splice(t, nodeToDelete, child)
             ELSE LET minNode == minValueNode(t, Append(nodeToDelete, "R"))
                      succ    == NodeAt(t, minNode)
                      t1      == Store(t, nodeToDelete,
                                       [target EXCEPT !.record = succ.record])
                  IN  Splice(t1, minNode, succ.right)

\* deleteNode(key, value) on the tree `t` holding `count` nodes by its counter.
deleteNode(t, count, key, value) ==
    LET out == Unlink(t, key, value)
    IN  IF ~out.removed THEN [root |-> t, nodeCount |-> count, fault |-> FALSE]
        ELSE IF out.fault THEN [root |-> t, nodeCount |-> count, fault |-> TRUE]
        ELSE [root      |-> reBalance(updateHeight(out.tree)),
              nodeCount |-> count - 1,
              fault     |-> FALSE]

\* insert(record) on the tree `t` with the counters `count` and `comparisons`.
insert(t, count, comparisons, record) ==
    IF t = NULL
        THEN [root                  |-> AVLNode(record),
              nodeCount             |-> count + 1,
              searchComparisonCount |-> comparisons + 1]
        ELSE [root                  |-> insertHelper(t, record),
              nodeCount             |-> count + 1,
              searchComparisonCount |-> comparisons]

\* search(key, value) returns a pointer to a Record: the one the found node
\* holds, or, when nothing is found, a Record local to search whose lifetime
\* has ended when search returns.
Live(r) == [live |-> TRUE, record |-> r]
Dangling == [live |-> FALSE]

search(t, key, value) ==
    LET found == searchHelper(t, key, value)
    IN  IF found = NoNode THEN Dangling
        ELSE Live(NodeAt(t, found).record)

\* The record search builds when nothing is found: Record("", 0).
Sentinel == Record(EmptyKey, ZeroValue)

\* What reading through a returned pointer can give: the record pointed to, or,
\* for a pointer to a dead object, anything.
AnyRecord ==
    {Record(k, v) : k \in {EmptyKey} \cup Keys \cup DeepKeys,
                    v \in {ZeroValue} \cup Values \cup DeepValues}

Read(pointer) == IF pointer.live THEN {pointer.record} ELSE AnyRecord

\* clearDatabase(): clearHelper releases every node and record; the root is reset.
clearDatabase(t) == NULL

\* A traversal that appends every node it visits, in range or not.
RECURSIVE rangeQueryHelperUnfiltered(_, _, _, _)
rangeQueryHelperUnfiltered(node, start, end, result) ==
    IF node = NULL THEN result
    ELSE LET value  == node.record.value
             onLeft == IF value > start
                           THEN rangeQueryHelperUnfiltered(node.left, start, end, result)
                           ELSE result
             onNode == Append(onLeft, node.record)
         IN  IF value < end
                 THEN rangeQueryHelperUnfiltered(node.right, start, end, onNode)
                 ELSE onNode

\* rangeQueryHelper(node, start, end, result): `result` with the records the
\* traversal of `node` appends to it.
RECURSIVE rangeQueryHelper(_, _, _, _)
rangeQueryHelper(node, start, end, result) ==
    IF node = NULL THEN result
    ELSE LET value  == node.record.value
             onLeft == IF value > start
                           THEN rangeQueryHelper(node.left, start, end, result)
                           ELSE result
             onNode == IF value >= start /\ value <= end
                           THEN Append(onLeft, node.record)
                           ELSE onLeft
         IN  IF value < end
                 THEN rangeQueryHelper(node.right, start, end, onNode)
                 ELSE onNode

rangeQuery(t, start, end) == rangeQueryHelper(t, start, end, <<>>)

\* ------------------------------------------------------- derived notions
RECURSIVE Nodes(_)
Nodes(node) ==
    IF node = NULL THEN 0 ELSE 1 + Nodes(node.left) + Nodes(node.right)

RECURSIVE Records(_)
Records(node) ==
    IF node = NULL THEN {}
    ELSE {node.record} \cup Records(node.left) \cup Records(node.right)

RECURSIVE KeysOf(_)
KeysOf(node) ==
    IF node = NULL THEN {}
    ELSE {node.record.key} \cup KeysOf(node.left) \cup KeysOf(node.right)

RECURSIVE calculateHeight(_)
calculateHeight(node) ==
    IF node = NULL THEN 0
    ELSE 1 + Max(calculateHeight(node.left), calculateHeight(node.right))

getTreeHeight(t) == calculateHeight(t)

\* AVLTree::getLastSearchComparisons is declared in AVL_Database.hpp; by the
\* specification it hands out the tree's comparison counter.
getLastSearchComparisons(comparisons) == comparisons

\* getSearchComparisons(key, value): a search, whose result is dropped, then the counter.
getSearchComparisons(t, comparisons, key, value) ==
    LET found == search(t, key, value)
    IN  getLastSearchComparisons(comparisons)

\* ---------------------------------------------------------------- history
Void == [void |-> TRUE]

Call(op, case) == [op |-> op, case |-> case]

InsertCase(t, k, v) ==
    LET found == searchHelper(t, k, v)
    IN  IF t = NULL THEN "empty"
        ELSE IF found = NoNode THEN "new"
        ELSE IF NodeAt(t, found).record.value = v THEN "duplicate"
        ELSE "clash"

DeleteCase(t, k, v) ==
    LET found  == searchHelper(t, k, v)
        target == NodeAt(t, found)
        where  == IF found = <<>> THEN "root " ELSE "inner "
    IN  IF t = NULL \/ found = NoNode THEN "absent"
        ELSE IF target.record.value # v THEN "mismatch"
        ELSE IF target.left = NULL /\ target.right = NULL THEN where \o "leaf"
        ELSE IF target.left = NULL \/ target.right = NULL THEN where \o "single"
        ELSE where \o "double"

SearchCase(t, k) ==
    IF searchHelper(t, k, 0) = NoNode THEN "miss" ELSE "hit"

Mixed == [insertsOnly |-> FALSE, calls |-> 0, inserted |-> {}]

\* ---------------------------------------------------------------- actions
Init ==
    /\ root = NULL
    /\ nodeCount = 0
    /\ searchComparisonCount = 0
    /\ returned = Void
    /\ fault = FALSE
    /\ last = Call("none", "none")
    /\ log = [insertsOnly |-> TRUE, calls |-> 0, inserted |-> {}]

Insert(k, v) ==
    /\ ~fault
    /\ last' = Call("insert", InsertCase(root, k, v))
    /\ LET after == insert(root, nodeCount, searchComparisonCount, Record(k, v))
       IN  /\ root' = after.root
           /\ nodeCount' = after.nodeCount
           /\ searchComparisonCount' = after.searchComparisonCount
    /\ returned' = Void
    /\ log' = IF log.insertsOnly
                  THEN [log EXCEPT !.calls = @ + 1, !.inserted = @ \cup {Record(k, v)}]
                  ELSE log
    /\ UNCHANGED fault

DeleteRecord(k, v) ==
    /\ ~fault
    /\ last' = Call("deleteRecord", DeleteCase(root, k, v))
    /\ LET after == deleteNode(root, nodeCount, k, v)
       IN  /\ root' = after.root
           /\ nodeCount' = after.nodeCount
           /\ fault' = after.fault
    /\ returned' = Void
    /\ log' = Mixed
    /\ UNCHANGED searchComparisonCount

Search(k, v) ==
    /\ ~fault
    /\ last' = Call("search", SearchCase(root, k))
    /\ returned' = search(root, k, v)
    /\ UNCHANGED <<root, nodeCount, searchComparisonCount, fault, log>>

ClearDatabase ==
    /\ ~fault
    /\ last' = Call("clearDatabase", "clear")
    /\ root' = clearDatabase(root)
    /\ returned' = Void
    /\ log' = Mixed
    /\ UNCHANGED <<nodeCount, searchComparisonCount, fault>>

\* The counters are unbounded in the code; the model stops inserting at the caps.
Room(maxCount, maxComparisons) ==
    /\ nodeCount < maxCount
    /\ root = NULL => searchComparisonCount < maxComparisons

DoInsert == \E k \in Keys, v \in Values : Room(MaxNodeCount, MaxComparisons) /\ Insert(k, v)
DoDelete == \E k \in Keys, v \in Values : DeleteRecord(k, v)
DoSearch == \E k \in Keys, v \in Values : Search(k, v)
DoClear == ClearDatabase

Next == DoInsert \/ DoDelete \/ DoSearch \/ DoClear

Spec == Init /\ [][Next]_vars

DeepInsert ==
    \E k \in DeepKeys, v \in DeepValues :
        Room(MaxDeepNodeCount, MaxDeepComparisons) /\ Insert(k, v)
DeepDelete == \E k \in DeepKeys, v \in DeepValues : DeleteRecord(k, v)
DeepSearch == \E k \in DeepKeys, v \in DeepValues : Search(k, v)
DeepClear == ClearDatabase

NextDeep == DeepInsert \/ DeepDelete \/ DeepSearch \/ DeepClear

SpecDeep == Init /\ [][NextDeep]_vars

\* ------------------------------------------------ the observing operations
\* What an observer hands back: a vector of record pointers, or an int.
Vector(result) == [records |-> result]
Number(n) == [int |-> n]

RangeQuery(start, end) ==
    /\ ~fault
    /\ last' = Call("rangeQuery", IF end < start THEN "inverted" ELSE "range")
    /\ returned' = Vector(rangeQuery(root, start, end))
    /\ UNCHANGED <<root, nodeCount, searchComparisonCount, fault, log>>

GetTreeHeight ==
    /\ ~fault
    /\ last' = Call("getTreeHeight", "height")
    /\ returned' = Number(getTreeHeight(root))
    /\ UNCHANGED <<root, nodeCount, searchComparisonCount, fault, log>>

GetSearchComparisons(k, v) ==
    /\ ~fault
    /\ last' = Call("getSearchComparisons", SearchCase(root, k))
    /\ returned' = Number(getSearchComparisons(root, searchComparisonCount, k, v))
    /\ UNCHANGED <<root, nodeCount, searchComparisonCount, fault, log>>

\* SpecQuery: the operations of Spec that change the store, and the observers.
QueryRange == \E start \in Values, end \in Values : RangeQuery(start, end)
QueryHeight == GetTreeHeight
QueryComparisons == \E k \in Keys, v \in Values : GetSearchComparisons(k, v)

NextQuery ==
    DoInsert \/ DoDelete \/ DoClear \/ QueryRange \/ QueryHeight \/ QueryComparisons

SpecQuery == Init /\ [][NextQuery]_vars

\* ---------------------------------------------- the rotations on their own
\* SpecRotate: rotateRight and rotateLeft applied to the root of any tree
\* ordered by key over RotateKeys, every cached height either the one
\* updateHeight would store or one too high.
RotateKeys == 1..NumRotateKeys

RECURSIVE TreesBetween(_, _)
TreesBetween(low, high) ==
    {NULL} \cup
    UNION {{[record |-> Record(k, v), left |-> l, right |-> r,
             height |-> 1 + Max(height(l), height(r)) + stale] :
                v \in DeepValues, l \in TreesBetween(low, k - 1),
                r \in TreesBetween(k + 1, high), stale \in {0, 1}} :
           k \in low..high}

InitRotate ==
    /\ root \in TreesBetween(1, NumRotateKeys)
    /\ nodeCount = Nodes(root)
    /\ searchComparisonCount = 0
    /\ returned = Void
    /\ fault = FALSE
    /\ last = Call("none", "none")
    /\ log = Mixed

RotateCase(node, child) == IF node = NULL \/ child = NULL THEN "unchanged" ELSE "rotated"

RotateRight ==
    /\ ~fault
    /\ last' = Call("rotateRight", RotateCase(root, IF root = NULL THEN NULL ELSE root.left))
    /\ root' = rotateRight(root)
    /\ UNCHANGED <<nodeCount, searchComparisonCount, returned, fault, log>>

RotateLeft ==
    /\ ~fault
    /\ last' = Call("rotateLeft", RotateCase(root, IF root = NULL THEN NULL ELSE root.right))
    /\ root' = rotateLeft(root)
    /\ UNCHANGED <<nodeCount, searchComparisonCount, returned, fault, log>>

NextRotate == RotateRight \/ RotateLeft

SpecRotate == InitRotate /\ [][NextRotate]_vars

\* ------------------------------------------------- inserts in ascending order
\* SpecAscending: from the empty store, inserts whose key is greater than
\* every key inserted before, and getTreeHeight.
AscendingKeys == 1..NumAscendingKeys

AscendingInsert ==
    \E k \in AscendingKeys, v \in DeepValues :
        /\ \A r \in log.inserted : r.key < k
        /\ Insert(k, v)

AscendingHeight == GetTreeHeight

NextAscending == AscendingInsert \/ AscendingHeight

SpecAscending == Init /\ [][NextAscending]_vars

\* ============================================================== the claims
RECURSIVE Ordered(_)
Ordered(node) ==
    \/ node = NULL
    \/ /\ \A k \in KeysOf(node.left) : k < node.record.key
       /\ \A k \in KeysOf(node.right) : k > node.record.key
       /\ Ordered(node.left)
       /\ Ordered(node.right)

RECURSIVE Balanced(_)
Balanced(node) ==
    \/ node = NULL
    \/ /\ calculateHeight(node.left) - calculateHeight(node.right) \in {-1, 0, 1}
       /\ Balanced(node.left)
       /\ Balanced(node.right)

RECURSIVE HeightsCached(_)
HeightsCached(node) ==
    \/ node = NULL
    \/ /\ node.height = 1 + Max(calculateHeight(node.left), calculateHeight(node.right))
       /\ HeightsCached(node.left)
       /\ HeightsCached(node.right)

\* The value stored under key k in tree t, as a set: empty when k is not stored.
ValuesUnder(t, k) == {r.value : r \in {s \in Records(t) : s.key = k}}

\* C1: in every reachable state every node's left subtree holds only smaller
\* keys and its right subtree only greater ones.
C1_BSTOrdering == Ordered(root)

\* C1's case: a new key has been inserted into a tree of four nodes or more
\* that an earlier deleteRecord left with a stale cached height.
C1_Witness ==
    /\ last = Call("insert", "new")
    /\ ~log.insertsOnly
    /\ ~HeightsCached(root)
    /\ Nodes(root) >= 5

\* C2: in every reachable state the true heights of the two subtrees of every
\* node differ by at most 1.
C2_HeightBalance == Balanced(root)

\* C3: in every reachable state every node's cached height is the height
\* recomputed by traversal.
C3_CachedHeights == HeightsCached(root)

\* C4: in every reachable state nodeCount is the number of nodes reachable
\* from the root.
C4_NodeCount == nodeCount = Nodes(root)

\* C5: deleteRecord(k, v) of a stored record (k, v) removes exactly that
\* record and takes 1 off nodeCount, whatever the shape and place of its node.
C5_DeleteRemoves ==
    [][last'.op = "deleteRecord" =>
          \A k \in DeepKeys, v \in DeepValues :
              (Record(k, v) \in Records(root) /\ DeleteRecord(k, v)) =>
                  /\ Records(root') = Records(root) \ {Record(k, v)}
                  /\ Nodes(root') = Nodes(root) - 1
                  /\ nodeCount' = nodeCount - 1]_vars

\* C5's case: the record removed was in a node with two children below the root.
C5_Witness ==
    /\ last = Call("deleteRecord", "inner double")
    /\ Nodes(root) >= 4
    /\ nodeCount = Nodes(root)

\* C6: deleteRecord(k, v) when no node holds key k with value v (the store is
\* empty, k is not stored, or k is stored under another value) changes neither
\* the tree, its records and cached heights, nor nodeCount.
C6_DeleteNoOp ==
    [][last'.op = "deleteRecord" =>
          \A k \in Keys, v \in Values :
              (Record(k, v) \notin Records(root) /\ DeleteRecord(k, v)) =>
                  /\ root' = root
                  /\ nodeCount' = nodeCount]_vars

\* C6's case: deleteRecord has met the key under another value, below the root.
C6_Witness ==
    /\ last = Call("deleteRecord", "mismatch")
    /\ Nodes(root) >= 2
    /\ nodeCount = Nodes(root)

\* C7: search(k, v) returns the record of the node with key k when there is
\* one, whatever v, and otherwise a valid record with empty key and value 0;
\* the tree and nodeCount stay as they are.
C7_SearchResult ==
    [][last'.op = "search" =>
          \A k \in Keys, v \in Values :
              Search(k, v) =>
                  /\ Read(returned') =
                         IF ValuesUnder(root, k) = {} THEN {Sentinel}
                         ELSE {Record(k, w) : w \in ValuesUnder(root, k)}
                  /\ root' = root
                  /\ nodeCount' = nodeCount]_vars

\* C8 as stated: after insert of (k, v) a search for k gives key k and value v.
C8_InsertThenSearch_Original ==
    [][last'.op = "insert" =>
          \A k \in Keys, v \in Values :
              Insert(k, v) => Read(search(root', k, v)) = {Record(k, v)}]_vars

\* C8, amended: after insert of (k, v) a search for k gives a record with key
\* k; its value is v when k was not stored before the insert, and the value
\* already stored under k when it was.
C8_InsertThenSearch ==
    [][last'.op = "insert" =>
          \A k \in Keys, v \in Values :
              Insert(k, v) =>
                  Read(search(root', k, v)) =
                      IF ValuesUnder(root, k) = {} THEN {Record(k, v)}
                      ELSE {Record(k, w) : w \in ValuesUnder(root, k)}]_vars

\* C8's case: a key has been inserted that was stored under another value.
C8_Witness ==
    /\ last = Call("insert", "clash")
    /\ Nodes(root) >= 2

\* C9: insert of (k, v) followed at once by deleteRecord(k, v) leaves the set
\* of stored records as it was before the insert.
C9_InsertThenDelete ==
    \A k \in Keys, v \in Values :
        LET inserted == insert(root, nodeCount, searchComparisonCount, Record(k, v))
            deleted  == deleteNode(inserted.root, inserted.nodeCount, k, v)
        IN  Records(deleted.root) = Records(root)

\* C10: records with pairwise distinct keys inserted into an empty store, in
\* whatever order, leave exactly those records in the tree.
C10_InsertOrder ==
    (log.insertsOnly /\ Cardinality({r.key : r \in log.inserted}) = log.calls) =>
        Records(root) = log.inserted

\* C10's case: one record for every key has been inserted, nothing else has
\* been called, and rebalancing has kept the six-node tree at height 3.
C10_Witness ==
    /\ log.insertsOnly
    /\ log.calls = NumDeepKeys
    /\ Cardinality({r.key : r \in log.inserted}) = NumDeepKeys
    /\ calculateHeight(root) = 3

\* The records a rangeQuery result lists.
Listed(result) == {result[i] : i \in 1..Len(result)}

InRange(r, start, end) == start <= r.value /\ r.value <= end

\* C11: rangeQuery(start, end) returns every stored record whose value lies in
\* [start, end]: no stored record in the range is missing from the result.
C11_RangeQueryComplete ==
    [][last'.op = "rangeQuery" =>
        \A start \in Values, end \in Values :
            RangeQuery(start, end) =>
                \A r \in Records(root) :
                    InRange(r, start, end) => r \in Listed(returned'.records)]_vars

\* C12: every record rangeQuery returns is stored, has its value in
\* [start, end] and is listed once; with end < start the result is empty.
C12_RangeQuerySound ==
    [][last'.op = "rangeQuery" =>
        \A start \in Values, end \in Values :
            RangeQuery(start, end) =>
                /\ \A i \in 1..Len(returned'.records) :
                      /\ returned'.records[i] \in Records(root)
                      /\ InRange(returned'.records[i], start, end)
                      /\ \A j \in 1..Len(returned'.records) :
                            returned'.records[j] = returned'.records[i] => j = i
                /\ end < start => returned'.records = <<>>
                /\ root' = root]_vars

\* C12's case: a range query has listed two records or more of a tree that
\* also stores a record it did not list.
C12_Witness ==
    /\ last = Call("rangeQuery", "range")
    /\ Len(returned.records) >= 2
    /\ Nodes(root) > Len(returned.records)

\* C13: right after clearDatabase the tree is empty: the root is absent,
\* getTreeHeight() is 0, rangeQuery is empty for all bounds and search returns
\* the not-found sentinel for every key.
C13_ClearEmpties ==
    last.op = "clearDatabase" =>
        /\ root = NULL
        /\ getTreeHeight(root) = 0
        /\ \A start \in Values, end \in Values : rangeQuery(root, start, end) = <<>>
        /\ \A k \in Keys, v \in Values : Read(search(root, k, v)) = {Sentinel}

\* A store as the operations see it, a freshly constructed one, and the one
\* of the current state.
StoreOf(t, count, comparisons) ==
    [root |-> t, nodeCount |-> count, searchComparisonCount |-> comparisons]

FreshStore == StoreOf(NULL, 0, 0)

ThisStore == StoreOf(root, nodeCount, searchComparisonCount)

\* The calls that change a store, and the store a call leaves.
Calls == [op : {"insert", "deleteRecord"}, key : Keys, value : Values]

After(store, call) ==
    IF call.op = "insert"
        THEN insert(store.root, store.nodeCount, store.searchComparisonCount,
                    Record(call.key, call.value))
        ELSE LET gone == deleteNode(store.root, store.nodeCount, call.key, call.value)
             IN  StoreOf(gone.root, gone.nodeCount, store.searchComparisonCount)

\* What a caller can observe of a store: what search reads for every key,
\* what rangeQuery lists for all bounds, the tree height and the node counter.
Observed(store) ==
    [ found     |-> [k \in Keys |-> Read(search(store.root, k, ZeroValue))],
      listed    |-> [b \in Values \X Values |-> rangeQuery(store.root, b[1], b[2])],
      height    |-> getTreeHeight(store.root),
      nodeCount |-> store.nodeCount ]

\* C14: a store that clearDatabase has just been called on is
\* indistinguishable from a freshly constructed one, at once and after every
\* sequence of up to two inserts and deleteRecords: search, rangeQuery and
\* getTreeHeight observe the same, and the node counter is the fresh store's.
C14_ClearedLikeFresh ==
    last.op = "clearDatabase" =>
        /\ Observed(ThisStore) = Observed(FreshStore)
        /\ \A first \in Calls :
              /\ Observed(After(ThisStore, first)) = Observed(After(FreshStore, first))
              /\ \A second \in Calls :
                    Observed(After(After(ThisStore, first), second))
                        = Observed(After(After(FreshStore, first), second))

\* C15: an insert whose key is already in the tree creates a new node, so
\* that both records are stored: the reachable nodes and nodeCount each grow
\* by 1, the new record is among the records, and search for the key still
\* returns the record found before.
C15_DuplicateStored ==
    [][last'.op = "insert" =>
        \A k \in Keys, v \in Values :
            (k \in KeysOf(root) /\ Insert(k, v)) =>
                /\ Nodes(root') = Nodes(root) + 1
                /\ nodeCount' = nodeCount + 1
                /\ Records(root') = Records(root) \cup {Record(k, v)}
                /\ Read(search(root', k, v)) = Read(search(root, k, v))]_vars

\* The nodes a search descent for `key` visits from `node`, one key
\* comparison each: down to the node holding the key, or to a null link.
RECURSIVE Visited(_, _)
Visited(node, key) ==
    IF node = NULL THEN 0
    ELSE IF node.record.key = key THEN 1
    ELSE IF key < node.record.key THEN 1 + Visited(node.left, key)
    ELSE 1 + Visited(node.right, key)

\* C16: getSearchComparisons(key, value) returns the number of nodes the
\* search descent for key visits in the current tree, whatever inserts and
\* searches came before.
C16_SearchComparisons ==
    [][last'.op = "getSearchComparisons" =>
        \A k \in Keys, v \in Values :
            GetSearchComparisons(k, v) => returned' = Number(Visited(root, k))]_vars

\* The keys of a tree in in-order sequence.
RECURSIVE InOrder(_)
InOrder(node) ==
    IF node = NULL THEN <<>>
    ELSE InOrder(node.left) \o <<node.record.key>> \o InOrder(node.right)

CachedFromChildren(node) == node.height = 1 + Max(height(node.left), height(node.right))

\* `out` is `y` rotated right: y's left child on top with y as its right
\* child, y's new left child the subtree that was the right one of y's left
\* child, the other subtrees where they were, the same records in the same
\* in-order sequence, and the heights of the two moved nodes cached from
\* their children's cached heights; `y` itself where it has no left child.
RightRotated(y, out) ==
    IF y = NULL \/ y.left = NULL THEN out = y
    ELSE /\ out.record = y.left.record
         /\ out.left = y.left.left
         /\ out.right.record = y.record
         /\ out.right.left = y.left.right
         /\ out.right.right = y.right
         /\ Nodes(out) = Nodes(y)
         /\ Records(out) = Records(y)
         /\ InOrder(out) = InOrder(y)
         /\ CachedFromChildren(out.right)
         /\ CachedFromChildren(out)

LeftRotated(x, out) ==
    IF x = NULL \/ x.right = NULL THEN out = x
    ELSE /\ out.record = x.right.record
         /\ out.right = x.right.right
         /\ out.left.record = x.record
         /\ out.left.right = x.right.left
         /\ out.left.left = x.left
         /\ Nodes(out) = Nodes(x)
         /\ Records(out) = Records(x)
         /\ InOrder(out) = InOrder(x)
         /\ CachedFromChildren(out.left)
         /\ CachedFromChildren(out)

\* C17: rotateRight(y) on a node with a left child L returns L with y as its
\* right child and L's former right subtree as y's left one, keeps the nodes
\* and the in-order key sequence, and leaves the cached heights of y and L at
\* 1 + the maximum of their children's cached heights; rotateLeft is the
\* mirror image; a node without the child the rotation needs is returned
\* unchanged.
C17_Rotations ==
    [][/\ RotateRight => RightRotated(root, root')
       /\ RotateLeft => LeftRotated(root, root')]_vars

\* C17's case: a right rotation has moved the former right subtree of the
\* left child, which was not empty, under the node rotated down.
C17_Witness ==
    /\ last = Call("rotateRight", "rotated")
    /\ root.right.left # NULL
    /\ root.left # NULL

\* The least h with 2^h >= n.
RECURSIVE CeilLog2(_)
CeilLog2(n) == IF n <= 1 THEN 0 ELSE 1 + CeilLog2((n + 1) \div 2)

\* C18: after N >= 1 inserts of distinct keys in strictly ascending order
\* into an empty store, getTreeHeight() is the least h with 2^h >= N + 1, and
\* the in-order traversal lists the inserted keys in ascending order.
C18_AscendingInserts ==
    (log.insertsOnly /\ log.calls >= 1) =>
        /\ getTreeHeight(root) = CeilLog2(log.calls + 1)
        /\ last.op = "getTreeHeight" => returned = Number(CeilLog2(log.calls + 1))
        /\ Len(InOrder(root)) = log.calls
        /\ \A i \in 1..Len(InOrder(root)) :
              /\ InOrder(root)[i] \in {r.key : r \in log.inserted}
              /\ \A j \in 1..Len(InOrder(root)) : i < j => InOrder(root)[i] < InOrder(root)[j]

\* C18's case: getTreeHeight has answered 3 after all the keys of
\* AscendingKeys were inserted in ascending order.
C18_Witness ==
    /\ last.op = "getTreeHeight"
    /\ log.insertsOnly
    /\ log.calls = NumAscendingKeys
    /\ returned = Number(CeilLog2(NumAscendingKeys + 1))

\* C19: in every state reached by inserts alone, keys repeated or not, the
\* tree is ordered by key, the true heights of every node's subtrees differ
\* by at most 1, and every cached height is the true one.
C19_InsertOnlyInvariants ==
    log.insertsOnly => Ordered(root) /\ Balanced(root) /\ HeightsCached(root)

\* C19's case: inserts alone, the last one of a key already stored, have
\* built a tree of all keys of DeepKeys but one.
C19_Witness ==
    /\ log.insertsOnly
    /\ last = Call("insert", "duplicate")
    /\ Nodes(root) = NumDeepKeys - 1

\* The node whose link points at `node`, a node other than the root.
ParentOf(node) == SubSeq(node, 1, Len(node) - 1)

\* deleteHelper(t, node) returns the parent of `node`, which is not null, and
\* the link deleteNode then overwrites is the one pointing at `node`.
LocatesParent(t, node) ==
    /\ node # <<>>
    /\ deleteHelper(t, node) # NoNode
    /\ deleteHelper(t, node) = ParentOf(node)
    /\ LinkOf(deleteHelper(t, node), node) = node

\* C20: no deleteNode call has dereferenced a null parent, and in every
\* deleteNode call that can be made now and locates a parent through
\* deleteHelper (a leaf or single-child node other than the root; the
\* successor of a two-children node, once that node holds the successor's
\* record) the descent returns the actual parent of the node to unlink,
\* whose link to that node is the one overwritten.
C20_ParentLocated ==
    /\ ~fault
    /\ \A k \in DeepKeys, v \in DeepValues :
          LET nodeToDelete == Target(root, k, v)
              target       == NodeAt(root, nodeToDelete)
          IN  (root # NULL /\ nodeToDelete # NoNode) =>
                  IF target.left # NULL /\ target.right # NULL
                      THEN LET minNode == minValueNode(root, Append(nodeToDelete, "R"))
                               t1      == Store(root, nodeToDelete,
                                                [target EXCEPT !.record =
                                                    NodeAt(root, minNode).record])
                           IN  LocatesParent(t1, minNode)
                      ELSE nodeToDelete # <<>> => LocatesParent(root, nodeToDelete)

\* C20's case: a deleteRecord has removed the successor of a root with two
\* children and left a tree with a stale cached height.
C20_Witness ==
    /\ last = Call("deleteRecord", "root double")
    /\ ~HeightsCached(root)
    /\ ~fault

====
